---- MODULE Spec2Model ----
(***************************************************************************)
(* Model of src/cost_estimates/fee_medians.rs: the weighted-median fee     *)
(* rate estimator (WeightedMedianFeeRateEstimator).                        *)
(*                                                                         *)
(* Two specifications share the variables:                                 *)
(*   Spec      instances of the estimator sharing one SQLite file: open,   *)
(*             notify_block (with update_estimate step by step) and        *)
(*             get_rate_estimates;                                         *)
(*   SpecFees  the pure sampling pipeline of notify_block applied to       *)
(*             bounded inputs.                                             *)
(*                                                                         *)
(* f64 values are modelled as exact rationals [n, d] in lowest terms with  *)
(* d > 0, plus the value NaN (d = 0) for 0.0/0.0 and x/0.0; comparisons    *)
(* with NaN are false, as for f64.  Rounding is not modelled.  u64 sums    *)
(* are modelled on small weights, far from 2^64.                           *)
(***************************************************************************)
EXTENDS Integers, Sequences, FiniteSets, TLC

VARIABLES
    \* ---- the shared storage file ----
    tableExists,    \* median_fee_estimator has been created (committed)
    rows,           \* committed rows: set of [measure_key, high, middle, low]
    seq,            \* committed sqlite_sequence value of the AUTOINCREMENT key
    lock,           \* instance holding the write (IMMEDIATE) transaction, 0 if none
    otherTables,    \* tables of other fee estimators sharing the file
    \* ---- the estimator instances (one connection each) ----
    pc,             \* pc[i]: position of instance i
    window_size,    \* window_size[i]
    tx,             \* tx[i]: uncommitted view of the open transaction of i
    new_measure,    \* new_measure[i]: argument of the running update_estimate
    estimate,       \* estimate[i]: last value read by get_rate_estimates_from_sql
    \* ---- history (not program state) ----
    hist,
    \* ---- the sampling pipeline under SpecFees ----
    f_pc, f_receipts, f_full, f_working, f_estimate

vars == <<tableExists, rows, seq, lock, otherTables, pc, window_size, tx,
          new_measure, estimate, hist, f_pc, f_receipts, f_full, f_working,
          f_estimate>>

----------------------------------------------------------------------------
(* Bounds of the model *)

\* the estimator instances sharing the storage file
Instances == {1, 2}
\* window_size is drawn from 0..MaxWindow
MaxWindow == 2
\* at most MaxRecords calls of update_estimate are made
MaxRecords == 3
\* receipts per block under SpecFees
MaxTxs == 2
\* length of the directly drawn sorted sample lists under SpecFees
MaxSorted == 3
\* stand-in for metrics::PROPORTION_RESOLUTION, scaled down
ResolutionScale == 1

----------------------------------------------------------------------------
(* f64 arithmetic as exact rationals *)

Abs(x) == IF x < 0 THEN -x ELSE x

RECURSIVE GCD(_, _)
GCD(a, b) == IF b = 0 THEN a ELSE GCD(b, a % b)

NaN == [n |-> 0, d |-> 0]
IsNaN(x) == x.d = 0

Rat(n, d) ==
    IF d = 0 THEN NaN
    ELSE LET g == GCD(Abs(n), Abs(d))
             s == IF d < 0 THEN -1 ELSE 1
         IN  [n |-> (s * n) \div g, d |-> (s * d) \div g]

FromInt(k) == [n |-> k, d |-> 1]

RatAdd(a, b) == IF IsNaN(a) \/ IsNaN(b) THEN NaN
                ELSE Rat(a.n * b.d + b.n * a.d, a.d * b.d)
RatSub(a, b) == IF IsNaN(a) \/ IsNaN(b) THEN NaN
                ELSE Rat(a.n * b.d - b.n * a.d, a.d * b.d)
RatMul(a, b) == IF IsNaN(a) \/ IsNaN(b) THEN NaN
                ELSE Rat(a.n * b.n, a.d * b.d)
RatDiv(a, b) == IF IsNaN(a) \/ IsNaN(b) THEN NaN
                ELSE Rat(a.n * b.d, a.d * b.n)

\* a < b, a <= b, a >= b on f64: false when either side is NaN
RatLT(a, b) == ~IsNaN(a) /\ ~IsNaN(b) /\ a.n * b.d < b.n * a.d
RatLE(a, b) == ~IsNaN(a) /\ ~IsNaN(b) /\ a.n * b.d <= b.n * a.d
RatGE(a, b) == RatLE(b, a)

\* f64::is_finite
IsFinite(x) == ~IsNaN(x)

----------------------------------------------------------------------------
(* The block fee-rate sampler *)

\* 6 * PROPORTION_RESOLUTION, the full_block_weight set by open
PROPORTION_RESOLUTION == ResolutionScale
FullBlockWeight == 6 * PROPORTION_RESOLUTION

\* a FeeRateEstimate not yet computed
NoneEstimate == [high |-> NaN, middle |-> NaN, low |-> NaN]

FeeRateAndWeight(r, w) == [fee_rate |-> r, weight |-> w]

\* A receipt: who originated the transaction, its payload kind, the fee paid
\* and the two answers of the CostMetric (metric.from_len(tx_size) and
\* metric.from_cost_and_len(execution_cost, block_limit, tx_size)).
Payloads == {"TokenTransfer", "Coinbase", "PoisonMicroblock", "ContractCall",
             "SmartContract"}

\* the fee taken as the rate, without the division by the cost
MutRateNotDivided(receipt) ==
    IF receipt.origin = "Burn" \/ receipt.payload = "Coinbase" THEN <<>>
    ELSE LET scalar_cost == IF receipt.payload = "TokenTransfer"
                            THEN receipt.from_len
                            ELSE receipt.from_cost_and_len
             fee_rate    == FromInt(receipt.fee)
         IN  IF RatGE(fee_rate, FromInt(1)) /\ IsFinite(fee_rate)
             THEN <<FeeRateAndWeight(fee_rate, scalar_cost)>>
             ELSE <<FeeRateAndWeight(FromInt(1), scalar_cost)>>

\* the sample weighted by the denominator of the rate, max(scalar_cost, 1)
MutWeightIsDenominator(receipt) ==
    IF receipt.origin = "Burn" \/ receipt.payload = "Coinbase" THEN <<>>
    ELSE LET scalar_cost == IF receipt.payload = "TokenTransfer"
                            THEN receipt.from_len
                            ELSE receipt.from_cost_and_len
             weight      == IF scalar_cost >= 1 THEN scalar_cost ELSE 1
             fee_rate    == RatDiv(FromInt(receipt.fee), FromInt(weight))
         IN  IF RatGE(fee_rate, FromInt(1)) /\ IsFinite(fee_rate)
             THEN <<FeeRateAndWeight(fee_rate, weight)>>
             ELSE <<FeeRateAndWeight(FromInt(1), weight)>>

\* Option<FeeRateAndWeight> as a sequence of length 0 (None) or 1 (Some)
fee_rate_and_weight_from_receipt(receipt) ==
    IF receipt.origin = "Burn" THEN <<>>
    ELSE IF receipt.payload = "Coinbase" THEN <<>>
    ELSE LET scalar_cost == IF receipt.payload = "TokenTransfer"
                            THEN receipt.from_len
                            ELSE receipt.from_cost_and_len
             denominator == IF scalar_cost >= 1 THEN FromInt(scalar_cost)
                            ELSE FromInt(1)
             fee_rate    == RatDiv(FromInt(receipt.fee), denominator)
         IN  IF RatGE(fee_rate, FromInt(1)) /\ IsFinite(fee_rate)
             THEN <<FeeRateAndWeight(fee_rate, scalar_cost)>>
             ELSE <<FeeRateAndWeight(FromInt(1), scalar_cost)>>

\* receipt.tx_receipts.iter().filter_map(..).collect()
RECURSIVE CollectFeeRates(_)
CollectFeeRates(tx_receipts) ==
    IF tx_receipts = <<>> THEN <<>>
    ELSE fee_rate_and_weight_from_receipt(Head(tx_receipts))
         \o CollectFeeRates(Tail(tx_receipts))

RECURSIVE TotalWeight(_)
TotalWeight(rates) ==
    IF rates = <<>> THEN 0 ELSE Head(rates).weight + TotalWeight(Tail(rates))

\* the filler added also when the block is exactly full
MutFillerOnEqual(working_rates, full_block_weight) ==
    LET total_weight == TotalWeight(working_rates)
    IN  IF total_weight <= full_block_weight
        THEN Append(working_rates,
                    FeeRateAndWeight(FromInt(1), full_block_weight - total_weight))
        ELSE working_rates

maybe_add_minimum_fee_rate(working_rates, full_block_weight) ==
    LET total_weight == TotalWeight(working_rates)
    IN  IF total_weight < full_block_weight
        THEN Append(working_rates,
                    FeeRateAndWeight(FromInt(1), full_block_weight - total_weight))
        ELSE working_rates

\* a.fee_rate.partial_cmp(&b.fee_rate).unwrap_or(Ordering::Equal) = Less
CmpLess(a, b) == RatLT(a.fee_rate, b.fee_rate)

\* working_fee_rates.sort_by(..): a stable sort
RECURSIVE InsertSorted(_, _)
InsertSorted(x, s) ==
    IF s = <<>> THEN <<x>>
    ELSE IF CmpLess(x, Head(s)) THEN <<x>> \o s
    ELSE <<Head(s)>> \o InsertSorted(x, Tail(s))

RECURSIVE SortByFeeRate(_)
SortByFeeRate(s) ==
    IF s = <<>> THEN <<>>
    ELSE InsertSorted(s[Len(s)], SortByFeeRate(SubSeq(s, 1, Len(s) - 1)))

\* cumulative_weight after the first k samples
RECURSIVE CumulativeWeight(_, _)
CumulativeWeight(s, k) ==
    IF k = 0 THEN 0 ELSE s[k].weight + CumulativeWeight(s, k - 1)

\* percentiles[k-1] of the code (sequences are 1-based here):
\* (cumulative_weight - weight / 2) / total_weight, NaN when total_weight = 0
Percentiles(s) ==
    LET total_weight == TotalWeight(s)
    IN  [k \in 1..Len(s) |->
            RatDiv(RatSub(FromInt(CumulativeWeight(s, k)), Rat(s[k].weight, 2)),
                   FromInt(total_weight))]

\* vec![0.05, 0.5, 0.95]
target_percentiles == <<Rat(1, 20), Rat(1, 2), Rat(19, 20)>>

\* the while loop: fees_index is the 0-based index of the code
RECURSIVE AdvanceIndex(_, _, _)
AdvanceIndex(percentiles, fees_index, target_percentile) ==
    IF fees_index < Len(percentiles)
       /\ RatLT(percentiles[fees_index + 1], target_percentile)
    THEN AdvanceIndex(percentiles, fees_index + 1, target_percentile)
    ELSE fees_index

\* the value with the first rate, not the last, once the index is past the end
MutPastEndTakesFirst(s, percentiles, fees_index, target_percentile) ==
    IF fees_index = 0 THEN s[1].fee_rate
    ELSE IF fees_index = Len(percentiles) THEN s[1].fee_rate
    ELSE LET vk  == s[fees_index].fee_rate
             vk1 == s[fees_index + 1].fee_rate
             pk  == percentiles[fees_index]
             pk1 == percentiles[fees_index + 1]
         IN  RatAdd(vk, RatMul(RatDiv(RatSub(target_percentile, pk),
                                      RatSub(pk1, pk)),
                               RatSub(vk1, vk)))

\* the interpolation measured from the upper sample instead of the lower one
MutInterpolatesFromUpper(s, percentiles, fees_index, target_percentile) ==
    IF fees_index = 0 THEN s[1].fee_rate
    ELSE IF fees_index = Len(percentiles) THEN s[Len(s)].fee_rate
    ELSE LET vk  == s[fees_index].fee_rate
             vk1 == s[fees_index + 1].fee_rate
             pk  == percentiles[fees_index]
             pk1 == percentiles[fees_index + 1]
         IN  RatAdd(vk1, RatMul(RatDiv(RatSub(target_percentile, pk),
                                       RatSub(pk1, pk)),
                                RatSub(vk1, vk)))

\* the value v pushed for one target percentile
ValueAtIndex(s, percentiles, fees_index, target_percentile) ==
    IF fees_index = 0 THEN s[1].fee_rate
    ELSE IF fees_index = Len(percentiles) THEN s[Len(s)].fee_rate
    ELSE LET vk  == s[fees_index].fee_rate
             vk1 == s[fees_index + 1].fee_rate
             pk  == percentiles[fees_index]
             pk1 == percentiles[fees_index + 1]
         IN  RatAdd(vk, RatMul(RatDiv(RatSub(target_percentile, pk),
                                      RatSub(pk1, pk)),
                               RatSub(vk1, vk)))

\* the index stepped past the sample found for the previous target
MutIndexStepsPastHit(sorted_fee_rates) ==
    LET percentiles == Percentiles(sorted_fee_rates)
        n  == Len(percentiles)
        i1 == AdvanceIndex(percentiles, 0, target_percentiles[1])
        i2 == AdvanceIndex(percentiles, IF i1 < n THEN i1 + 1 ELSE n,
                           target_percentiles[2])
        i3 == AdvanceIndex(percentiles, IF i2 < n THEN i2 + 1 ELSE n,
                           target_percentiles[3])
    IN  [high   |-> ValueAtIndex(sorted_fee_rates, percentiles, i3,
                                 target_percentiles[3]),
         middle |-> ValueAtIndex(sorted_fee_rates, percentiles, i2,
                                 target_percentiles[2]),
         low    |-> ValueAtIndex(sorted_fee_rates, percentiles, i1,
                                 target_percentiles[1])]

\* requires a non-empty list (the code panics on an empty one)
fee_rate_estimate_from_sorted_weighted_fees(sorted_fee_rates) ==
    LET percentiles == Percentiles(sorted_fee_rates)
        i1 == AdvanceIndex(percentiles, 0, target_percentiles[1])
        i2 == AdvanceIndex(percentiles, i1, target_percentiles[2])
        i3 == AdvanceIndex(percentiles, i2, target_percentiles[3])
    IN  [high   |-> ValueAtIndex(sorted_fee_rates, percentiles, i3,
                                 target_percentiles[3]),
         middle |-> ValueAtIndex(sorted_fee_rates, percentiles, i2,
                                 target_percentiles[2]),
         low    |-> ValueAtIndex(sorted_fee_rates, percentiles, i1,
                                 target_percentiles[1])]

----------------------------------------------------------------------------
(* The windowed estimate store: SQL statements on a view of the table *)

\* A view is [exists, rows, seq]: the committed file, or the uncommitted
\* state of an open transaction.

\* A NUMBER column has NUMERIC affinity: a REAL that is exactly an integer is
\* stored as INTEGER, any other as REAL; NaN binds as NULL.
ToSql(x) ==
    IF IsNaN(x) THEN [type |-> "NULL", n |-> 0, d |-> 0]
    ELSE IF x.d = 1 THEN [type |-> "INTEGER", n |-> x.n, d |-> 1]
    ELSE [type |-> "REAL", n |-> x.n, d |-> x.d]

\* row.get::<f64>: an INTEGER i reads as i as f64, a REAL as itself
FromSql(v) ==
    IF v.type = "INTEGER" THEN FromInt(v.n) ELSE [n |-> v.n, d |-> v.d]

Keys(rs) == {r.measure_key : r \in rs}

MaxKey(rs) == CHOOSE k \in Keys(rs) : \A j \in Keys(rs) : j <= k

\* INTEGER PRIMARY KEY AUTOINCREMENT: one more than the largest key ever used
NextKey(view) ==
    LET m == IF view.rows = {} THEN 0 ELSE MaxKey(view.rows)
    IN  (IF view.seq > m THEN view.seq ELSE m) + 1

\* the same INSERT with low bound to the high column and high to the low
MutInsertSwapsColumns(view, m) ==
    LET k == NextKey(view)
    IN  [view EXCEPT !.rows = @ \cup {[measure_key |-> k,
                                       high   |-> ToSql(m.low),
                                       middle |-> ToSql(m.middle),
                                       low    |-> ToSql(m.high)]},
                     !.seq = k]

\* INSERT INTO median_fee_estimator (high, middle, low) VALUES (?, ?, ?)
SqlInsert(view, m) ==
    LET k == NextKey(view)
    IN  [view EXCEPT !.rows = @ \cup {[measure_key |-> k,
                                       high   |-> ToSql(m.high),
                                       middle |-> ToSql(m.middle),
                                       low    |-> ToSql(m.low)]},
                     !.seq = k]

\* the statement violates no NOT NULL constraint
InsertAccepted(m) ==
    ~IsNaN(m.high) /\ ~IsNaN(m.middle) /\ ~IsNaN(m.low)

\* the same DELETE with the cutoff computed in wrapping 8-bit unsigned
\* arithmetic instead of SQLite's signed 64-bit integers
MutDeleteWraps(view, window) ==
    IF view.rows = {} THEN view
    ELSE LET cutoff == (MaxKey(view.rows) - window) % 256
         IN  [view EXCEPT !.rows = {r \in @ : ~(r.measure_key <= cutoff)}]

\* the same DELETE with < in place of <=
MutDeleteOffByOne(view, window) ==
    IF view.rows = {} THEN view
    ELSE LET cutoff == MaxKey(view.rows) - window
         IN  [view EXCEPT !.rows = {r \in @ : ~(r.measure_key < cutoff)}]

\* DELETE FROM median_fee_estimator WHERE measure_key <=
\*   (SELECT MAX(measure_key) - ? FROM median_fee_estimator)
\* MAX of an empty table is NULL and the comparison then selects nothing.
SqlDelete(view, window) ==
    IF view.rows = {} THEN view
    ELSE LET cutoff == MaxKey(view.rows) - window
         IN  [view EXCEPT !.rows = {r \in @ : ~(r.measure_key <= cutoff)}]

\* SELECT high, middle, low FROM median_fee_estimator
\*   ORDER BY measure_key DESC LIMIT ?
RECURSIVE SqlSelect(_, _)
SqlSelect(rs, window) ==
    IF rs = {} \/ window = 0 THEN <<>>
    ELSE LET top == CHOOSE r \in rs : r.measure_key = MaxKey(rs)
         IN  <<top>> \o SqlSelect(rs \ {top}, window - 1)

\* l.sort_by(|a, b| a.partial_cmp(b).unwrap_or(Ordering::Equal))
RECURSIVE InsertFloat(_, _)
InsertFloat(x, l) ==
    IF l = <<>> THEN <<x>>
    ELSE IF RatLT(x, Head(l)) THEN <<x>> \o l
    ELSE <<Head(l)>> \o InsertFloat(x, Tail(l))

RECURSIVE SortFloats(_)
SortFloats(l) ==
    IF l = <<>> THEN <<>>
    ELSE InsertFloat(l[Len(l)], SortFloats(SubSeq(l, 1, Len(l) - 1)))

\* the median without the even case
MutMedianUpper(len, l) == l[(len \div 2) + 1]

\* fn median(len, l) on a sorted list; l[k] of the code is l[k + 1] here
median(len, l) ==
    IF len % 2 = 1 THEN l[(len \div 2) + 1]
    ELSE RatDiv(RatAdd(l[(len \div 2) + 1], l[len \div 2]), FromInt(2))

\* the result of a read: the Result returned, with the rows the SELECT
\* returned and the number of rows of the view it ran on
NoResult == [tag |-> "None", value |-> NoneEstimate, seen |-> {}, stored |-> 0]

\* a read that reports an estimate of zeros on an empty window
MutDefaultOnEmpty(view, window) ==
    LET results == SqlSelect(view.rows, window)
        highs == [k \in 1..Len(results) |-> FromSql(results[k].high)]
        mids  == [k \in 1..Len(results) |-> FromSql(results[k].middle)]
        lows  == [k \in 1..Len(results) |-> FromSql(results[k].low)]
        seen  == {results[k] : k \in 1..Len(results)}
    IN  IF highs = <<>> \/ mids = <<>> \/ lows = <<>>
        THEN [tag |-> "Ok",
              value |-> [high |-> FromInt(0), middle |-> FromInt(0),
                         low |-> FromInt(0)],
              seen |-> seen, stored |-> Cardinality(view.rows)]
        ELSE [tag |-> "Ok",
              value |-> [high   |-> median(Len(highs), SortFloats(highs)),
                         middle |-> median(Len(mids), SortFloats(mids)),
                         low    |-> median(Len(lows), SortFloats(lows))],
              seen |-> seen, stored |-> Cardinality(view.rows)]

\* a read that takes the high value from the low column and the low value
\* from the high column
MutColumnsCrossed(view, window) ==
    LET results == SqlSelect(view.rows, window)
        highs == [k \in 1..Len(results) |-> FromSql(results[k].low)]
        mids  == [k \in 1..Len(results) |-> FromSql(results[k].middle)]
        lows  == [k \in 1..Len(results) |-> FromSql(results[k].high)]
        seen  == {results[k] : k \in 1..Len(results)}
    IN  IF highs = <<>> \/ mids = <<>> \/ lows = <<>>
        THEN [tag |-> "NoEstimateAvailable", value |-> NoneEstimate,
              seen |-> seen, stored |-> Cardinality(view.rows)]
        ELSE [tag |-> "Ok",
              value |-> [high   |-> median(Len(highs), SortFloats(highs)),
                         middle |-> median(Len(mids), SortFloats(mids)),
                         low    |-> median(Len(lows), SortFloats(lows))],
              seen |-> seen, stored |-> Cardinality(view.rows)]

get_rate_estimates_from_sql(view, window) ==
    LET results == SqlSelect(view.rows, window)
        highs == [k \in 1..Len(results) |-> FromSql(results[k].high)]
        mids  == [k \in 1..Len(results) |-> FromSql(results[k].middle)]
        lows  == [k \in 1..Len(results) |-> FromSql(results[k].low)]
        seen  == {results[k] : k \in 1..Len(results)}
    IN  IF highs = <<>> \/ mids = <<>> \/ lows = <<>>
        THEN [tag |-> "NoEstimateAvailable", value |-> NoneEstimate,
              seen |-> seen, stored |-> Cardinality(view.rows)]
        ELSE [tag |-> "Ok",
              value |-> [high   |-> median(Len(highs), SortFloats(highs)),
                         middle |-> median(Len(mids), SortFloats(mids)),
                         low    |-> median(Len(lows), SortFloats(lows))],
              seen |-> seen, stored |-> Cardinality(view.rows)]

----------------------------------------------------------------------------
(* Spec: estimator instances sharing one storage file *)

\* the blocks notify_block is called with
Blocks ==
    {<<[origin |-> "Stacks", payload |-> "ContractCall", fee |-> 5,
        from_len |-> 10, from_cost_and_len |-> 0]>>,
     <<[origin |-> "Stacks", payload |-> "TokenTransfer", fee |-> 100,
        from_len |-> 10, from_cost_and_len |-> 3]>>,
     <<[origin |-> "Stacks", payload |-> "Coinbase", fee |-> 5,
        from_len |-> 10, from_cost_and_len |-> 3],
       [origin |-> "Stacks", payload |-> "SmartContract", fee |-> 5,
        from_len |-> 10, from_cost_and_len |-> 3]>>}

NoView == [exists |-> FALSE, rows |-> {}, seq |-> 0]

\* the committed state of the file, as a view
Committed == [exists |-> tableExists, rows |-> rows, seq |-> seq]

\* history: the number of update_estimate calls committed, their window size
\* (NoWindow before the first, MixedWindows once two of them differ), the
\* measure_keys they inserted, and the measure committed last
NoWindow == 0 - 1
MixedWindows == 0 - 2
NoHistory == [completed |-> 0, window |-> NoWindow, keys |-> {},
              last |-> NoneEstimate]

\* the instances inside update_estimate
Updating == {j \in Instances :
               pc[j] \in {"upd_begin", "upd_insert", "upd_delete", "upd_read",
                          "upd_commit"}}

\* the file may be shared with other fee estimators, which have created
\* their own tables in it (open, lines 77-79)
OtherEstimatorTables == {"scalar_fee_estimator"}

Init ==
    /\ tableExists = FALSE /\ rows = {} /\ seq = 0 /\ lock = 0
    /\ otherTables \in SUBSET OtherEstimatorTables
    /\ pc = [i \in Instances |-> "closed"]
    /\ window_size = [i \in Instances |-> 0]
    /\ tx = [i \in Instances |-> NoView]
    /\ new_measure = [i \in Instances |-> NoneEstimate]
    /\ estimate = [i \in Instances |-> NoResult]
    /\ hist = NoHistory
    /\ f_pc = "off" /\ f_receipts = <<>> /\ f_full = 0 /\ f_working = <<>>
    /\ f_estimate = NoneEstimate

\* the instances run while the pipeline is not being studied, and leave its
\* variables alone
FeesUnchanged ==
    /\ f_pc = "off"
    /\ UNCHANGED <<f_pc, f_receipts, f_full, f_working, f_estimate>>

\* open, lines 71-75: sqlite_open with the window_size the caller passes, by
\* a process that holds no estimator (none yet, dropped, or lost to a panic)
OpenConnect(i) ==
    /\ pc[i] \in {"closed", "panicked", "upd_panicked", "open_table_exists"}
    /\ \E w \in 0..MaxWindow : window_size' = [window_size EXCEPT ![i] = w]
    /\ pc' = [pc EXCEPT ![i] = "open_begin"]
    /\ UNCHANGED <<tableExists, rows, seq, lock, tx, new_measure, estimate, hist>>
    /\ UNCHANGED otherTables
    /\ FeesUnchanged

\* the transaction of open begun DEFERRED: it takes no write lock
MutOpenBeginDeferred(i) ==
    /\ pc[i] = "open_begin"
    /\ tx' = [tx EXCEPT ![i] = Committed]
    /\ pc' = [pc EXCEPT ![i] = "open_instantiate"]
    /\ UNCHANGED <<tableExists, rows, seq, lock, window_size, new_measure,
                   estimate, hist>>
    /\ UNCHANGED otherTables
    /\ FeesUnchanged

\* open, line 80: tx_begin_immediate_sqlite waits for the write lock
OpenBegin(i) ==
    /\ pc[i] = "open_begin"
    /\ lock = 0
    /\ lock' = i
    /\ tx' = [tx EXCEPT ![i] = Committed]
    /\ pc' = [pc EXCEPT ![i] = "open_instantiate"]
    /\ UNCHANGED <<tableExists, rows, seq, window_size, new_measure, estimate, hist>>
    /\ UNCHANGED otherTables
    /\ FeesUnchanged

\* the table_exists query never finds the table
MutNeverInstantiated(view) == FALSE

\* db_already_instantiated, lines 94-96: table_exists inside the transaction
db_already_instantiated(view) == view.exists

\* instantiate_db, lines 98-104: CREATE TABLE unless the table exists.  A
\* CREATE TABLE of a table that exists is an SQLite error: open returns it
\* (the ? of line 100) and the dropped transaction rolls back
OpenInstantiate(i) ==
    /\ pc[i] = "open_instantiate"
    /\ IF db_already_instantiated(tx[i])
       THEN /\ pc' = [pc EXCEPT ![i] = "open_commit"]
            /\ UNCHANGED <<tx, lock, window_size>>
       ELSE IF tx[i].exists
            THEN /\ pc' = [pc EXCEPT ![i] = "open_table_exists"]
                 /\ tx' = [tx EXCEPT ![i] = NoView]
                 /\ lock' = IF lock = i THEN 0 ELSE lock
                 /\ window_size' = [window_size EXCEPT ![i] = 0]
            ELSE /\ tx' = [tx EXCEPT ![i].exists = TRUE]
                 /\ pc' = [pc EXCEPT ![i] = "open_commit"]
                 /\ UNCHANGED <<lock, window_size>>
    /\ UNCHANGED <<tableExists, rows, seq, new_measure, estimate, hist>>
    /\ UNCHANGED otherTables
    /\ FeesUnchanged

\* open, lines 82-89: commit and return the estimator
OpenCommit(i) ==
    /\ pc[i] = "open_commit"
    /\ tableExists' = tx[i].exists
    /\ rows' = tx[i].rows
    /\ seq' = tx[i].seq
    /\ lock' = 0
    /\ tx' = [tx EXCEPT ![i] = NoView]
    /\ pc' = [pc EXCEPT ![i] = "idle"]
    /\ UNCHANGED <<window_size, new_measure, estimate, hist>>
    /\ UNCHANGED otherTables
    /\ FeesUnchanged

\* open returns Err on a failed step (the ? of lines 75-82); the dropped
\* transaction rolls back
OpenFail(i) ==
    /\ pc[i] \in {"open_begin", "open_instantiate", "open_commit"}
    /\ lock' = IF lock = i THEN 0 ELSE lock
    /\ tx' = [tx EXCEPT ![i] = NoView]
    /\ pc' = [pc EXCEPT ![i] = "closed"]
    /\ window_size' = [window_size EXCEPT ![i] = 0]
    /\ UNCHANGED <<tableExists, rows, seq, new_measure, estimate, hist>>
    /\ UNCHANGED otherTables
    /\ FeesUnchanged

\* the estimator is dropped and its connection closed
Drop(i) ==
    /\ pc[i] = "idle"
    /\ pc' = [pc EXCEPT ![i] = "closed"]
    /\ window_size' = [window_size EXCEPT ![i] = 0]
    /\ UNCHANGED <<tableExists, rows, seq, lock, tx, new_measure,
                   estimate, hist>>
    /\ UNCHANGED otherTables
    /\ FeesUnchanged

\* notify_block, lines 200-230, up to the call of update_estimate
NotifyBlock(i) ==
    /\ pc[i] = "idle"
    /\ hist.completed + Cardinality(Updating) < MaxRecords
    /\ \E block \in Blocks :
         LET working_fee_rates ==
                 maybe_add_minimum_fee_rate(CollectFeeRates(block), FullBlockWeight)
         IN  IF Len(working_fee_rates) > 0
             THEN /\ new_measure' = [new_measure EXCEPT ![i] =
                        fee_rate_estimate_from_sorted_weighted_fees(
                            SortByFeeRate(working_fee_rates))]
                  /\ pc' = [pc EXCEPT ![i] = "upd_begin"]
             ELSE UNCHANGED <<new_measure, pc>>
    /\ UNCHANGED <<tableExists, rows, seq, lock, window_size, tx, estimate, hist>>
    /\ UNCHANGED otherTables
    /\ FeesUnchanged

\* update_estimate, line 162: tx_begin_immediate_sqlite
UpdBegin(i) ==
    /\ pc[i] = "upd_begin"
    /\ lock = 0
    /\ lock' = i
    /\ tx' = [tx EXCEPT ![i] = Committed]
    /\ pc' = [pc EXCEPT ![i] = "upd_insert"]
    /\ UNCHANGED <<tableExists, rows, seq, window_size, new_measure, estimate, hist>>
    /\ UNCHANGED otherTables
    /\ FeesUnchanged

\* the INSERT executed outside the transaction, committed at once
MutInsertAutocommit(i) ==
    /\ pc[i] = "upd_insert"
    /\ InsertAccepted(new_measure[i])
    /\ tx' = [tx EXCEPT ![i] = SqlInsert(@, new_measure[i])]
    /\ rows' = SqlInsert(tx[i], new_measure[i]).rows
    /\ seq' = SqlInsert(tx[i], new_measure[i]).seq
    /\ pc' = [pc EXCEPT ![i] = "upd_delete"]
    /\ UNCHANGED <<tableExists, lock, window_size, new_measure, estimate, hist>>
    /\ UNCHANGED otherTables
    /\ FeesUnchanged

\* update_estimate, lines 172-176: the INSERT
UpdInsert(i) ==
    /\ pc[i] = "upd_insert"
    /\ InsertAccepted(new_measure[i])
    /\ tx' = [tx EXCEPT ![i] = SqlInsert(@, new_measure[i])]
    /\ pc' = [pc EXCEPT ![i] = "upd_delete"]
    /\ UNCHANGED <<tableExists, rows, seq, lock, window_size, new_measure,
                   estimate, hist>>
    /\ UNCHANGED otherTables
    /\ FeesUnchanged

\* update_estimate, lines 178-179: the DELETE
UpdDelete(i) ==
    /\ pc[i] = "upd_delete"
    /\ tx' = [tx EXCEPT ![i] = SqlDelete(@, window_size[i])]
    /\ pc' = [pc EXCEPT ![i] = "upd_read"]
    /\ UNCHANGED <<tableExists, rows, seq, lock, window_size, new_measure,
                   estimate, hist>>
    /\ UNCHANGED otherTables
    /\ FeesUnchanged

\* update_estimate, line 181: the read inside the transaction
UpdRead(i) ==
    /\ pc[i] = "upd_read"
    /\ estimate' = [estimate EXCEPT ![i] =
                       get_rate_estimates_from_sql(tx[i], window_size[i])]
    /\ pc' = [pc EXCEPT ![i] = "upd_commit"]
    /\ UNCHANGED <<tableExists, rows, seq, lock, window_size, tx, new_measure, hist>>
    /\ UNCHANGED otherTables
    /\ FeesUnchanged

\* update_estimate, lines 183-194, and the Ok(()) of notify_block
UpdCommit(i) ==
    /\ pc[i] = "upd_commit"
    /\ tableExists' = tx[i].exists
    /\ rows' = tx[i].rows
    /\ seq' = tx[i].seq
    /\ lock' = 0
    /\ hist' = [hist EXCEPT
                  !.completed = @ + 1,
                  !.window = IF @ \in {NoWindow, window_size[i]}
                             THEN window_size[i] ELSE MixedWindows,
                  !.keys = @ \cup {tx[i].seq},
                  !.last = new_measure[i]]
    /\ tx' = [tx EXCEPT ![i] = NoView]
    /\ estimate' = [estimate EXCEPT ![i] = NoResult]
    /\ new_measure' = [new_measure EXCEPT ![i] = NoneEstimate]
    /\ pc' = [pc EXCEPT ![i] = "idle"]
    /\ UNCHANGED window_size
    /\ UNCHANGED otherTables
    /\ FeesUnchanged

\* a step of update_estimate fails: expect("SQLite failure") panics, the
\* transaction is dropped and rolls back, the estimator is unwound
UpdFail(i) ==
    /\ pc[i] \in {"upd_begin", "upd_insert", "upd_delete", "upd_read", "upd_commit"}
    /\ lock' = IF lock = i THEN 0 ELSE lock
    /\ tx' = [tx EXCEPT ![i] = NoView]
    /\ estimate' = [estimate EXCEPT ![i] = NoResult]
    /\ new_measure' = [new_measure EXCEPT ![i] = NoneEstimate]
    /\ pc' = [pc EXCEPT ![i] = "upd_panicked"]
    /\ window_size' = [window_size EXCEPT ![i] = 0]
    /\ UNCHANGED <<tableExists, rows, seq, hist>>
    /\ UNCHANGED otherTables
    /\ FeesUnchanged

\* a read on the connection of another instance's open transaction
MutReadUncommitted(i) ==
    /\ pc[i] = "idle"
    /\ estimate' = [estimate EXCEPT ![i] =
          get_rate_estimates_from_sql(IF lock # 0 THEN tx[lock] ELSE Committed,
                                      window_size[i])]
    /\ pc' = [pc EXCEPT ![i] = "got"]
    /\ UNCHANGED <<tableExists, rows, seq, lock, window_size, tx, new_measure, hist>>
    /\ UNCHANGED otherTables
    /\ FeesUnchanged

\* get_rate_estimates, lines 232-234: one SELECT on the committed state
GetRateEstimates(i) ==
    /\ pc[i] = "idle"
    /\ estimate' = [estimate EXCEPT ![i] =
                       get_rate_estimates_from_sql(Committed, window_size[i])]
    /\ pc' = [pc EXCEPT ![i] = "got"]
    /\ UNCHANGED <<tableExists, rows, seq, lock, window_size, tx, new_measure, hist>>
    /\ UNCHANGED otherTables
    /\ FeesUnchanged

\* get_rate_estimates fails in prepare or query: expect panics (lines 112-128)
GetFail(i) ==
    /\ pc[i] = "idle"
    /\ pc' = [pc EXCEPT ![i] = "panicked"]
    /\ window_size' = [window_size EXCEPT ![i] = 0]
    /\ UNCHANGED <<tableExists, rows, seq, lock, tx, new_measure,
                   estimate, hist>>
    /\ UNCHANGED otherTables
    /\ FeesUnchanged

\* the caller has taken the result of get_rate_estimates
GetReturn(i) ==
    /\ pc[i] = "got"
    /\ estimate' = [estimate EXCEPT ![i] = NoResult]
    /\ pc' = [pc EXCEPT ![i] = "idle"]
    /\ UNCHANGED <<tableExists, rows, seq, lock, window_size, tx, new_measure, hist>>
    /\ UNCHANGED otherTables
    /\ FeesUnchanged

Next ==
    \/ \E i \in Instances : OpenConnect(i)
    \/ \E i \in Instances : OpenBegin(i)
    \/ \E i \in Instances : OpenInstantiate(i)
    \/ \E i \in Instances : OpenCommit(i)
    \/ \E i \in Instances : OpenFail(i)
    \/ \E i \in Instances : Drop(i)
    \/ \E i \in Instances : NotifyBlock(i)
    \/ \E i \in Instances : UpdBegin(i)
    \/ \E i \in Instances : UpdInsert(i)
    \/ \E i \in Instances : UpdDelete(i)
    \/ \E i \in Instances : UpdRead(i)
    \/ \E i \in Instances : UpdCommit(i)
    \/ \E i \in Instances : UpdFail(i)
    \/ \E i \in Instances : GetRateEstimates(i)
    \/ \E i \in Instances : GetFail(i)
    \/ \E i \in Instances : GetReturn(i)

Spec == Init /\ [][Next]_vars

----------------------------------------------------------------------------
(* SpecFees: the sampling pipeline of notify_block on bounded inputs *)

Fees == {0, 5, 100}

\* the receipts a block is drawn from; the metric answer a payload kind does
\* not use is held fixed
Receipts ==
    {[origin |-> "Burn", payload |-> "ContractCall", fee |-> 5,
      from_len |-> 10, from_cost_and_len |-> 3],
     [origin |-> "Stacks", payload |-> "Coinbase", fee |-> 5,
      from_len |-> 10, from_cost_and_len |-> 3]}
    \cup {[origin |-> "Stacks", payload |-> "TokenTransfer", fee |-> f,
           from_len |-> c, from_cost_and_len |-> 3] : f \in Fees, c \in {0, 10}}
    \cup {[origin |-> "Stacks", payload |-> p, fee |-> f,
           from_len |-> 10, from_cost_and_len |-> c] :
             p \in Payloads \ {"TokenTransfer", "Coinbase"},
             f \in Fees, c \in {0, 3}}

SeqsUpTo(S, n) == UNION {[1..k -> S] : k \in 0..n}

\* the full_block_weight values the pipeline is run with
FullWeights == {0, FullBlockWeight}

SampleRates   == {Rat(1, 2), FromInt(1), FromInt(3), FromInt(10)}
SampleWeights == {0, 1, 4}
Samples       == {FeeRateAndWeight(r, w) : r \in SampleRates, w \in SampleWeights}

IsSortedByFeeRate(s) ==
    \A k \in 1..(Len(s) - 1) : RatLE(s[k].fee_rate, s[k + 1].fee_rate)

SortedSampleLists == {s \in SeqsUpTo(Samples, MaxSorted) : IsSortedByFeeRate(s)}

\* the values the store variables keep while the pipeline is studied alone
StoreIdle ==
    /\ tableExists = FALSE /\ rows = {} /\ seq = 0 /\ lock = 0
    /\ otherTables = {}
    /\ pc = [i \in Instances |-> "closed"]
    /\ window_size = [i \in Instances |-> 0]
    /\ tx = [i \in Instances |-> NoView]
    /\ new_measure = [i \in Instances |-> NoneEstimate]
    /\ estimate = [i \in Instances |-> NoResult]
    /\ hist = NoHistory

FeesInit ==
    /\ StoreIdle
    /\ f_estimate = NoneEstimate
    /\ \/ /\ f_pc = "receipts"
          /\ f_receipts \in SeqsUpTo(Receipts, MaxTxs)
          /\ f_full \in FullWeights
          /\ f_working = <<>>
       \/ /\ f_pc = "sorted"
          /\ f_receipts = <<>>
          /\ f_full = 0
          /\ f_working \in SortedSampleLists

StoreUnchanged ==
    UNCHANGED <<tableExists, rows, seq, lock, otherTables, pc, window_size, tx,
                new_measure, estimate, hist>>

\* notify_block, lines 206-212
FeeCollect ==
    /\ f_pc = "receipts"
    /\ f_working' = CollectFeeRates(f_receipts)
    /\ f_pc' = "collected"
    /\ UNCHANGED <<f_receipts, f_full, f_estimate>>
    /\ StoreUnchanged

\* notify_block, line 215
FeeFill ==
    /\ f_pc = "collected"
    /\ f_working' = maybe_add_minimum_fee_rate(f_working, f_full)
    /\ f_pc' = "filled"
    /\ UNCHANGED <<f_receipts, f_full, f_estimate>>
    /\ StoreUnchanged

\* notify_block, lines 218-223
FeeSort ==
    /\ f_pc = "filled"
    /\ Len(f_working) > 0
    /\ f_working' = SortByFeeRate(f_working)
    /\ f_pc' = "sorted"
    /\ UNCHANGED <<f_receipts, f_full, f_estimate>>
    /\ StoreUnchanged

\* the length test of line 218 left out: the empty list goes on to the estimate
MutNoLengthGuard ==
    /\ f_pc = "filled"
    /\ Len(f_working) = 0
    /\ f_pc' = "sorted"
    /\ UNCHANGED <<f_receipts, f_full, f_working, f_estimate>>
    /\ StoreUnchanged

\* notify_block, line 218 false: Ok(()) without an estimate
FeeSkip ==
    /\ f_pc = "filled"
    /\ Len(f_working) = 0
    /\ f_pc' = "skipped"
    /\ UNCHANGED <<f_receipts, f_full, f_working, f_estimate>>
    /\ StoreUnchanged

\* fee_rate_estimate_from_sorted_weighted_fees on a non-empty list
FeeEstimate ==
    /\ f_pc = "sorted"
    /\ f_working # <<>>
    /\ f_estimate' = fee_rate_estimate_from_sorted_weighted_fees(f_working)
    /\ f_pc' = "estimated"
    /\ UNCHANGED <<f_receipts, f_full, f_working>>
    /\ StoreUnchanged

\* fee_rate_estimate_from_sorted_weighted_fees on an empty list: panic!
FeePanic ==
    /\ f_pc = "sorted"
    /\ f_working = <<>>
    /\ f_pc' = "panic"
    /\ UNCHANGED <<f_receipts, f_full, f_working, f_estimate>>
    /\ StoreUnchanged

\* the pipeline runs inside notify_block; a sorted list drawn directly (no
\* receipts, full_block_weight 0) is an input of the pure function alone
InNotifyBlock == f_receipts # <<>> \/ f_full > 0

\* notify_block, line 226: the block estimate is handed to update_estimate,
\* which inserts it as a row
FeeRecord ==
    /\ f_pc = "estimated"
    /\ InNotifyBlock
    /\ f_pc' = "update_estimate"
    /\ UNCHANGED <<f_receipts, f_full, f_working, f_estimate>>
    /\ StoreUnchanged

FeesNext ==
    \/ FeeCollect
    \/ FeeFill
    \/ FeeSort
    \/ FeeSkip
    \/ FeeEstimate
    \/ FeePanic
    \/ FeeRecord

SpecFees == FeesInit /\ [][FeesNext]_vars

----------------------------------------------------------------------------
(* SpecAll: the instances and the pipeline, for claims that span both *)

AllInit == Init \/ FeesInit

AllNext == Next \/ FeesNext

SpecAll == AllInit /\ [][AllNext]_vars

----------------------------------------------------------------------------
(* Claims about the store, checked under Spec *)

Min(a, b) == IF a < b THEN a ELSE b

\* the k largest elements of a set of integers
Largest(S, k) == {x \in S : Cardinality({y \in S : y > x}) < k}

\* C1: with every record made under the same window size w on an initially
\* empty table, the number of persisted rows is min(n, w) after n completed
\* records: nothing is trimmed while n <= w, and w rows remain afterwards.
C1_RowCountIsMinOfRecordsAndWindow ==
    hist.window >= 0
        => Cardinality(rows) = Min(hist.completed, hist.window)

\* more records than the window holds have completed
C1_Witness ==
    /\ hist.window = 2
    /\ hist.completed = 3
    /\ Cardinality(rows) = 2

\* C2: after every completed record the persisted rows are exactly those with
\* the window_size largest measure_keys ever inserted, and for
\* window_size >= 1 the row inserted last is among them, holding the measure
\* recorded last.
C2_RowsAreTheNewest ==
    hist.window >= 0
        => /\ Keys(rows) = Largest(hist.keys, hist.window)
           /\ Cardinality(rows) = Cardinality(Keys(rows))
           /\ (hist.window >= 1 /\ hist.completed >= 1)
                 => \E r \in rows :
                       /\ r.measure_key = MaxKey(rows)
                       /\ \A k \in hist.keys : k <= r.measure_key
                       /\ FromSql(r.high) = hist.last.high
                       /\ FromSql(r.middle) = hist.last.middle
                       /\ FromSql(r.low) = hist.last.low

\* the oldest row has been evicted and the newest kept
C2_Witness ==
    /\ hist.window = 2
    /\ hist.keys = {1, 2, 3}
    /\ Keys(rows) = {2, 3}

\* C3: a record is all-or-nothing: the persisted table changes only in the
\* commit of an update_estimate, and then to the table with the new row
\* inserted and the old rows trimmed; a step that fails leaves the table and
\* the key sequence as they were before the call.
C3_RecordAllOrNothing ==
    [][/\ (rows' # rows \/ seq' # seq)
            => \E i \in Instances :
                  /\ pc[i] = "upd_commit" /\ pc'[i] = "idle"
                  /\ rows' = SqlDelete(SqlInsert(Committed, new_measure[i]),
                                       window_size[i]).rows
                  /\ seq' = seq + 1
       /\ \A i \in Instances :
             (pc[i] # "upd_panicked" /\ pc'[i] = "upd_panicked")
                => /\ rows' = rows /\ seq' = seq /\ tableExists' = tableExists
                   /\ lock' # i /\ tx'[i] = NoView
      ]_vars

\* a record has failed on a table that earlier records filled to its window
C3_Witness ==
    \E i \in Instances :
        /\ pc[i] = "upd_panicked"
        /\ hist.window = 2
        /\ Cardinality(rows) = 2
        /\ seq = 2

\* C4: a reader on another connection observes committed states only: every
\* row it is given was inserted by a completed record, and once records have
\* completed under window size w it is never given more than w rows.
C4_ReaderSeesCommittedStates ==
    \A i \in Instances :
        pc[i] = "got"
            => /\ Keys(estimate[i].seen) \subseteq hist.keys
               /\ Cardinality(estimate[i].seen) <= window_size[i]
               /\ hist.window >= 0
                     => Cardinality(estimate[i].seen) <= hist.window

\* a reader holds the committed window while a writer's transaction has
\* inserted and trimmed, and not yet committed
C4_Witness ==
    \E i, j \in Instances :
        /\ pc[i] = "got" /\ pc[j] = "upd_commit" /\ lock = j
        /\ hist.window = 2
        /\ estimate[i].seen = rows
        /\ Cardinality(rows) = 2
        /\ tx[j].rows # rows

\* C5 as stated: get_rate_estimates returns NoEstimateAvailable exactly when
\* the store holds zero rows.
C5_NoEstimateIffStoreEmpty ==
    \A i \in Instances :
        pc[i] = "got"
            => (estimate[i].tag = "NoEstimateAvailable"
                    <=> estimate[i].stored = 0)

\* C5 amended: get_rate_estimates returns NoEstimateAvailable exactly when the
\* store holds zero rows or window_size is 0, and an estimate over at least
\* one row otherwise.
C5_NoEstimateIffWindowEmpty ==
    \A i \in Instances :
        pc[i] = "got"
            => /\ estimate[i].tag \in {"Ok", "NoEstimateAvailable"}
               /\ estimate[i].tag = "NoEstimateAvailable"
                     <=> (estimate[i].stored = 0 \/ window_size[i] = 0)
               /\ estimate[i].tag = "Ok" => estimate[i].seen # {}
               /\ estimate[i].tag = "NoEstimateAvailable"
                     => estimate[i].value = NoneEstimate

\* a freshly opened store with a positive window is read before any record
C5_Witness ==
    \E i \in Instances :
        /\ pc[i] = "got"
        /\ window_size[i] >= 1
        /\ hist.completed = 0
        /\ estimate[i].tag = "NoEstimateAvailable"

\* the median of column c of a non-empty set of rows, by rank: the middle
\* order statistic, or the mean of the two central ones
IsColumnMedian(m, rs, c) ==
    LET n == Cardinality(rs)
        Below(x) == Cardinality({r \in rs : RatLT(FromSql(r[c]), x)})
        Above(x) == Cardinality({r \in rs : RatLT(x, FromSql(r[c]))})
    IN  IF n % 2 = 1
        THEN \E r \in rs :
                /\ m = FromSql(r[c])
                /\ Below(m) <= n \div 2 /\ Above(m) <= n \div 2
        ELSE \E a, b \in rs :
                /\ Below(FromSql(a[c])) <= (n \div 2) - 1
                /\ Above(FromSql(a[c])) <= n \div 2
                /\ Below(FromSql(b[c])) <= n \div 2
                /\ Above(FromSql(b[c])) <= (n \div 2) - 1
                /\ m = RatDiv(RatAdd(FromSql(a[c]), FromSql(b[c])), FromInt(2))

\* the read of result res over the row set rs with window w is the
\* column-wise median of the min(|rs|, w) rows of rs with the largest keys
IsWindowMedian(res, rs, w) ==
    LET window == {r \in rs : r.measure_key \in Largest(Keys(rs), w)}
    IN  window # {}
           => /\ res.tag = "Ok"
              /\ res.seen = window
              /\ Cardinality(window) = Min(Cardinality(rs), w)
              /\ IsColumnMedian(res.value.high, window, "high")
              /\ IsColumnMedian(res.value.middle, window, "middle")
              /\ IsColumnMedian(res.value.low, window, "low")

C7_SingleRowReadsBack ==
    [][\A i \in Instances :
          (pc[i] = "idle" /\ pc'[i] = "got" /\ Cardinality(rows) = 1
           /\ window_size[i] >= 1)
             => /\ estimate'[i].tag = "Ok"
                /\ estimate'[i].value = hist.last
      ]_vars

\* with window_size = 1 and several records made, the read gives the last
\* measure, whose three values differ
C7_Witness ==
    \E i \in Instances :
        /\ pc[i] = "got"
        /\ hist.window = 1 /\ hist.completed >= 2
        /\ window_size[i] = 1
        /\ estimate[i].tag = "Ok"
        /\ estimate[i].value = hist.last
        /\ hist.last.low # hist.last.high

\* the positions of an instance inside open, and those of an instance that
\* holds an estimator
Opening == {"open_begin", "open_instantiate", "open_commit"}
Opened  == {"idle", "upd_begin", "upd_insert", "upd_delete", "upd_read",
            "upd_commit", "got"}

\* C11: open leaves what the file holds alone: no step of an open changes a
\* committed row, the key sequence or a table of another estimator; on a file
\* that has the table the instantiation changes nothing and does not fail on
\* the table being there, so that opening again has the effect of opening
\* once; on a file without it an open that returns has created it.
C11_OpenKeepsFileContents ==
    [][\A i \in Instances :
          (pc[i] \in Opening /\ pc'[i] # pc[i])
             => /\ rows' = rows /\ seq' = seq
                /\ otherTables' = otherTables
                /\ tableExists => tableExists'
                /\ pc'[i] # "open_table_exists"
                /\ (pc[i] = "open_instantiate" /\ tableExists
                    /\ pc'[i] # "closed")
                      => (pc'[i] = "open_commit" /\ tx'[i] = tx[i])
                /\ pc'[i] = "idle" => tableExists'
      ]_vars

\* an open is about to commit on a file that holds rows of this estimator
\* and a table of another one
C11_Witness ==
    \E i \in Instances :
        /\ pc[i] = "open_commit"
        /\ tableExists /\ rows # {} /\ tx[i].rows = rows
        /\ otherTables # {}

\* C12: instances opening the same file at the same time check and create
\* inside the exclusive write transaction: an instance past the begin of its
\* transaction holds the write lock; CREATE TABLE is executed only by the
\* lock holder and only while the committed file lacks the table; a created
\* table stays; no opener gets the table-already-exists error, and every
\* instance that holds an estimator has the table.
C12_CreateTableOnceUnderLock ==
    /\ [](\A i \in Instances :
             /\ pc[i] # "open_table_exists"
             /\ pc[i] \in {"open_instantiate", "open_commit"} => lock = i
             /\ pc[i] \in Opened => tableExists)
    /\ [][\A i \in Instances :
              /\ (pc[i] = "open_instantiate" /\ ~tx[i].exists /\ tx'[i].exists)
                    => (/\ lock = i
                        /\ ~tableExists
                        /\ \A j \in Instances \ {i} : ~tx[j].exists)
              /\ (tableExists => tableExists')
         ]_vars

\* one opener has executed CREATE TABLE and not yet committed, the other
\* waits for the write lock
C12_Witness ==
    \E i, j \in Instances :
        /\ i # j
        /\ pc[i] = "open_commit" /\ tx[i].exists /\ ~tableExists
        /\ pc[j] = "open_begin"

\* C14 as stated: a storage failure inside notify_block or get_rate_estimates
\* comes back to the caller as an error result of the call: no call of an
\* estimator ends in a panic.
C14_StorageFailureIsErrorResult ==
    \A i \in Instances : pc[i] \notin {"panicked", "upd_panicked"}

\* a stored row read back as floats has low <= middle <= high
RowOrdered(r) ==
    /\ RatLE(FromSql(r.low), FromSql(r.middle))
    /\ RatLE(FromSql(r.middle), FromSql(r.high))

----------------------------------------------------------------------------
(* Claims about the sampling pipeline, checked under SpecFees *)

\* C8: for every non-empty list of samples sorted ascending by fee_rate with
\* positive total weight, the estimate computed by
\* fee_rate_estimate_from_sorted_weighted_fees has low <= middle <= high.
C8_LowMiddleHighOrdered ==
    (f_pc = "estimated" /\ TotalWeight(f_working) > 0)
        => /\ RatLE(f_estimate.low, f_estimate.middle)
           /\ RatLE(f_estimate.middle, f_estimate.high)

\* a list with three distinct rates whose estimate interpolates between them
C8_Witness ==
    /\ f_pc = "estimated"
    /\ TotalWeight(f_working) > 0
    /\ Len(f_working) = 3
    /\ RatLT(f_estimate.low, f_estimate.middle)
    /\ RatLT(f_estimate.middle, f_estimate.high)
    /\ \A k \in 1..3 : f_estimate.middle # f_working[k].fee_rate

\* C9 as stated: a block whose samples have total weight zero, run with
\* full_block_weight > 0, gets exactly one filler sample (1.0,
\* full_block_weight) and the estimate {low: 1.0, middle: 1.0, high: 1.0}.
C9_ZeroWeightBlockEstimatesOne ==
    (f_pc = "estimated" /\ f_full > 0
     /\ TotalWeight(CollectFeeRates(f_receipts)) = 0)
        => /\ Cardinality({k \in 1..Len(f_working) :
                 f_working[k] = FeeRateAndWeight(FromInt(1), f_full)}) = 1
           /\ TotalWeight(f_working) = f_full
           /\ f_estimate = [high |-> FromInt(1), middle |-> FromInt(1),
                            low |-> FromInt(1)]

\* C10: a sample list holding exactly one sample (r, w) with w > 0 and no
\* filler yields low = middle = high = r; fee 100 at weight 10 yields 10.
C10_SingleSample ==
    (f_pc = "estimated" /\ Len(f_working) = 1 /\ f_working[1].weight > 0)
        => /\ f_estimate.low = f_working[1].fee_rate
           /\ f_estimate.middle = f_working[1].fee_rate
           /\ f_estimate.high = f_working[1].fee_rate
           /\ (Len(f_receipts) = 1 /\ f_receipts[1].fee = 100
               /\ f_working[1].weight = 10)
                 => f_estimate = [high |-> FromInt(10), middle |-> FromInt(10),
                                  low |-> FromInt(10)]

\* the block of one transaction paying 100 at weight 10, no filler added
C10_Witness ==
    /\ f_pc = "estimated"
    /\ Len(f_receipts) = 1 /\ f_receipts[1].fee = 100
    /\ f_working = <<FeeRateAndWeight(FromInt(10), 10)>>
    /\ f_estimate.low = FromInt(10)

\* C13: a block that yields no sample after the filler step, which takes
\* full_block_weight = 0 and no eligible transaction, makes notify_block
\* return Ok(()) at once: no estimate is computed, update_estimate is never
\* reached and the store is as it was before the call.
C13_EmptyBlockIsSkipped ==
    /\ []((f_pc = "filled" /\ f_full = 0
           /\ CollectFeeRates(f_receipts) = <<>>) => f_working = <<>>)
    /\ [](f_pc = "skipped"
            => (/\ f_full = 0
                /\ CollectFeeRates(f_receipts) = <<>>
                /\ f_estimate = NoneEstimate))
    /\ [][/\ (f_pc = "filled" /\ f_working = <<>>)
               => (/\ f_pc' = "skipped"
                   /\ f_estimate' = NoneEstimate
                   /\ rows' = rows /\ seq' = seq
                   /\ tableExists' = tableExists /\ lock' = lock)
          /\ (f_pc = "skipped" => f_pc' = "skipped")
         ]_vars

\* a block of two transactions, neither eligible, run with full_block_weight 0
C13_Witness ==
    /\ f_pc = "skipped"
    /\ Len(f_receipts) = 2
    /\ f_full = 0
    /\ f_working = <<>>

Max(a, b) == IF a > b THEN a ELSE b

\* C15: maybe_add_minimum_fee_rate appends exactly one sample (1.0,
\* full_block_weight - total) when the total weight of the samples is below
\* full_block_weight and appends nothing otherwise; the samples it was given
\* stay as they were, and afterwards the total weight is
\* max(total, full_block_weight).
C15_FillerTopsUpToFullBlock ==
    [][(f_pc = "collected" /\ f_pc' = "filled")
          => LET total == TotalWeight(f_working)
                 n     == Len(f_working)
             IN  /\ SubSeq(f_working', 1, n) = f_working
                 /\ IF total < f_full
                    THEN /\ Len(f_working') = n + 1
                         /\ f_working'[n + 1].fee_rate = FromInt(1)
                         /\ f_working'[n + 1].weight = f_full - total
                    ELSE Len(f_working') = n
                 /\ TotalWeight(f_working') = Max(total, f_full)
      ]_vars

\* a block half full is topped up: one sample of weight 3, the filler of
\* weight 3 after it
C15_Witness ==
    /\ f_pc = "filled"
    /\ Len(f_working) = 2
    /\ f_working[1].weight = 3
    /\ f_working[2] = FeeRateAndWeight(FromInt(1), 3)

\* the receipts that yield a sample, and the scalar cost of one
Eligible(receipt) == receipt.origin = "Stacks" /\ receipt.payload # "Coinbase"
ScalarCost(receipt) ==
    IF receipt.payload = "TokenTransfer" THEN receipt.from_len
    ELSE receipt.from_cost_and_len

\* C16: the samples collected from a block are those of its eligible
\* transactions, in order; the sample of a transaction with fee f and scalar
\* cost c has weight exactly c, also when c = 0, and fee_rate f / max(c, 1)
\* when that quotient is at least 1.0 and 1.0 otherwise: no sample has a
\* fee_rate below 1.0 and the clamp leaves the weight alone.
C16_SampleRateAndWeight ==
    f_pc = "collected"
        => LET eligible == SelectSeq(f_receipts, Eligible)
           IN  /\ Len(f_working) = Len(eligible)
               /\ \A k \in 1..Len(eligible) :
                     LET f == eligible[k].fee
                         c == ScalarCost(eligible[k])
                     IN  /\ f_working[k].weight = c
                         /\ f_working[k].fee_rate =
                               IF f >= Max(c, 1) THEN Rat(f, Max(c, 1))
                               ELSE FromInt(1)
                         /\ RatGE(f_working[k].fee_rate, FromInt(1))

\* a block with a zero-cost transaction paying 5 and a transfer paying 5 at
\* cost 10, whose rate 0.5 is clamped to 1.0 at weight 10
C16_Witness ==
    /\ f_pc = "collected"
    /\ Len(f_working) = 2
    /\ f_working[1] = FeeRateAndWeight(FromInt(5), 0)
    /\ f_working[2] = FeeRateAndWeight(FromInt(1), 10)

ScanFromZero(percentiles, t) ==
    LET hits == {k \in 1..Len(percentiles) : RatGE(percentiles[k], t)}
    IN  IF hits = {} THEN Len(percentiles)
        ELSE (CHOOSE k \in hits : \A j \in hits : k <= j) - 1

\* the weighted percentile at 0-based index k: the first rate at k = 0, the
\* last rate past the end, the linear interpolation otherwise
PercentileValue(s, percentiles, k, t) ==
    IF k = 0 THEN s[1].fee_rate
    ELSE IF k = Len(s) THEN s[Len(s)].fee_rate
    ELSE RatAdd(s[k].fee_rate,
                RatMul(RatDiv(RatSub(t, percentiles[k]),
                              RatSub(percentiles[k + 1], percentiles[k])),
                       RatSub(s[k + 1].fee_rate, s[k].fee_rate)))

\* C18: on every sorted sample list of positive total weight the scan index
\* shared by the three targets, never reset between them, stands for each
\* target t at the smallest k with p_k >= t (the list length if there is
\* none), as a scan from 0 would; and the value for t is the first rate at
\* k = 0, the last rate past the end and the interpolation otherwise.
C18_SharedIndexIsIndependentScan ==
    (f_pc = "estimated" /\ TotalWeight(f_working) > 0)
        => LET p  == Percentiles(f_working)
               i1 == AdvanceIndex(p, 0, target_percentiles[1])
               i2 == AdvanceIndex(p, i1, target_percentiles[2])
               i3 == AdvanceIndex(p, i2, target_percentiles[3])
               k1 == ScanFromZero(p, target_percentiles[1])
               k2 == ScanFromZero(p, target_percentiles[2])
               k3 == ScanFromZero(p, target_percentiles[3])
           IN  /\ i1 = k1 /\ i2 = k2 /\ i3 = k3
               /\ f_estimate.low =
                     PercentileValue(f_working, p, k1, target_percentiles[1])
               /\ f_estimate.middle =
                     PercentileValue(f_working, p, k2, target_percentiles[2])
               /\ f_estimate.high =
                     PercentileValue(f_working, p, k3, target_percentiles[3])

\* a list on which the three targets stop at three different places: at the
\* first sample, inside the list, and past the end
C18_Witness ==
    /\ f_pc = "estimated"
    /\ TotalWeight(f_working) > 0
    /\ Len(f_working) = 3
    /\ LET p == Percentiles(f_working)
       IN  /\ ScanFromZero(p, target_percentiles[1]) = 0
           /\ ScanFromZero(p, target_percentiles[2]) \in {1, 2}
           /\ ScanFromZero(p, target_percentiles[3]) = 3
    /\ f_estimate.low # f_estimate.middle
    /\ f_estimate.middle # f_estimate.high

----------------------------------------------------------------------------
(* Claims about the pipeline and the store together, checked under SpecAll *)

AtLeastOne(e) ==
    /\ RatGE(e.low, FromInt(1))
    /\ RatGE(e.middle, FromInt(1))
    /\ RatGE(e.high, FromInt(1))

\* C20: the low, middle and high of every estimate computed from a sorted
\* sample list lie between the smallest and the largest fee_rate of the list
\* (filler included); the interpolation is taken only with
\* p[k-1] < t <= p[k], so its denominator is positive.  Every sample of a
\* block has a rate of at least 1.0, so every estimate notify_block records,
\* every row persisted from one and every aggregate read from the rows is at
\* least 1.0 in its three values.
C20_EstimatesWithinSampleRates ==
    /\ f_pc \in {"estimated", "update_estimate"}
          => LET s  == f_working
                 p  == Percentiles(s)
                 i1 == AdvanceIndex(p, 0, target_percentiles[1])
                 i2 == AdvanceIndex(p, i1, target_percentiles[2])
                 i3 == AdvanceIndex(p, i2, target_percentiles[3])
                 ix == <<i1, i2, i3>>
             IN  /\ \A v \in {f_estimate.low, f_estimate.middle, f_estimate.high} :
                       /\ RatLE(s[1].fee_rate, v)
                       /\ RatLE(v, s[Len(s)].fee_rate)
                 /\ \A n \in 1..3 :
                       (0 < ix[n] /\ ix[n] < Len(s))
                          => /\ RatLT(p[ix[n]], target_percentiles[n])
                             /\ RatLE(target_percentiles[n], p[ix[n] + 1])
                             /\ RatLT(p[ix[n]], p[ix[n] + 1])
                 /\ InNotifyBlock
                       => /\ \A k \in 1..Len(s) : RatGE(s[k].fee_rate, FromInt(1))
                          /\ AtLeastOne(f_estimate)
    /\ \A i \in Instances :
          /\ i \in Updating => AtLeastOne(new_measure[i])
          /\ estimate[i].tag = "Ok" => AtLeastOne(estimate[i].value)
          /\ \A r \in rows \cup tx[i].rows :
                AtLeastOne([low |-> FromSql(r.low), middle |-> FromSql(r.middle),
                            high |-> FromSql(r.high)])

\* notify_block records an estimate whose high value is interpolated
\* strictly between the smallest and the largest rate of the block
C20_Witness ==
    /\ f_pc = "update_estimate"
    /\ Len(f_receipts) > 0
    /\ RatLT(f_working[1].fee_rate, f_estimate.high)
    /\ RatLT(f_estimate.high, f_working[Len(f_working)].fee_rate)
    /\ f_estimate.low = FromInt(1)

====
